---- MODULE Spec2Model ----
(***************************************************************************)
(* Model of tailmon (src/main.py): a monitor that polls the Tailscale      *)
(* device inventory, classifies each device as online or offline from its  *)
(* lastSeen timestamp, diffs the result against the state file and sends   *)
(* one notification per change.                                            *)
(*                                                                         *)
(* Python dicts keep insertion order, and the order decides the order of   *)
(* the change list, so a snapshot (current_devices, previous_state, the    *)
(* content of the state file) is a sequence of entries with distinct ids.  *)
(* Every entry carries its key in the field id.  A change event carries    *)
(* the extra field id, which the code does not store: it names the key the *)
(* event was emitted for.  Emoji in titles are left out of the strings.    *)
(***************************************************************************)
EXTENDS Integers, Sequences, FiniteSets, TLC

\* ------------------------------------------------------------------ bounds
\* Longest device list a fetch returns.
MaxDevices == 2
\* Last position in a handler's notify calls at which a call can fail.
MaxFailPos == 1

\* Latest instant and largest lastSeen of a probe of is_device_online.
MaxProbeTime == 4
\* Largest threshold of a probe of is_device_online.
MaxThreshold == 3

\* --------------------------------------------------------------- constants
ONLINE_THRESHOLD_SECONDS == 60

\* ------------------------------------------------------------ input domains
Ids == {"A", "B", "C"}
\* A raw record without the key 'id'.
MissingId == "<no id>"

\* (name, hostname) of the raw records of an id; "" is an absent or empty
\* field.  Device A is seen under two names, the second one by its
\* hostname; the other devices share A's first name.
NameFieldsOf(i) ==
  IF i = "A" THEN {<<"alpha", "">>, <<"", "beta">>} ELSE {<<"alpha", "">>}

NoLastSeen == [kind |-> "absent", t |-> 0]
EmptyLastSeen == [kind |-> "empty", t |-> 0]
GarbageLastSeen == [kind |-> "garbage", t |-> 0]
Iso(t) == [kind |-> "iso", t |-> t]
\* A timestamp without UTC offset: fromisoformat reads it, and subtracting
\* it from the aware now raises TypeError.
Naive(t) == [kind |-> "naive", t |-> t]

LastSeenVals == {NoLastSeen, Iso(0)}

\* The instants at which datetime.now() is read.
Instants == {ONLINE_THRESHOLD_SECONDS - 1, ONLINE_THRESHOLD_SECONDS}

RawRecords ==
  UNION {{[id |-> i, name |-> nf[1], hostname |-> nf[2], lastSeen |-> ls] :
            nf \in NameFieldsOf(i), ls \in LastSeenVals} :
           i \in Ids \cup {MissingId}}

Payloads == UNION {[1..n -> RawRecords] : n \in 0..MaxDevices}

\* What get_tailscale_devices returns: None, a body without content, or a
\* body with a device list.
NoneData == [kind |-> "none", devices |-> <<>>]
EmptyData == [kind |-> "empty", devices |-> <<>>]
DevicesData(p) == [kind |-> "devices", devices |-> p]

FetchResults == {NoneData, EmptyData} \cup {DevicesData(p) : p \in Payloads}

\* Mutant of Falsy: the test of the fetch result is missing.
Falsy_Never(d) == FALSE

\* `not data`
Falsy(d) == d.kind \in {"none", "empty"}

\* ------------------------------------------------------- is_device_online
\* Mutant of is_online_at: the comparison is not strict.
is_online_at_NotStrict(last_seen, now, threshold) ==
  IF last_seen.kind \in {"absent", "empty"} THEN FALSE
  ELSE IF last_seen.kind # "iso" THEN FALSE
  ELSE now - last_seen.t <= threshold

\* Mutant of is_online_at: the except branch answers True.
is_online_at_FailOpen(last_seen, now, threshold) ==
  IF last_seen.kind \in {"absent", "empty"} THEN FALSE
  ELSE IF last_seen.kind # "iso" THEN TRUE
  ELSE now - last_seen.t < threshold

\* The body of is_device_online, the threshold it reads from the global
\* ONLINE_THRESHOLD_SECONDS being a parameter: `not last_seen` answers
\* False, an exception of the try block answers False, else the elapsed
\* time is compared.
is_online_at(last_seen, now, threshold) ==
  IF last_seen.kind \in {"absent", "empty"} THEN FALSE
  ELSE IF last_seen.kind # "iso" THEN FALSE
  ELSE now - last_seen.t < threshold

is_device_online(device, now) ==
  is_online_at(device.lastSeen, now, ONLINE_THRESHOLD_SECONDS)

\* device.get('name') or device.get('hostname', 'Unknown'); an absent
\* hostname is "" here and gives 'Unknown'.
DeviceName(device) ==
  IF device.name # "" THEN device.name
  ELSE IF device.hostname # "" THEN device.hostname
  ELSE "Unknown"

\* device.get('lastSeen', '')
StoredLastSeen(device) ==
  IF device.lastSeen.kind = "absent" THEN EmptyLastSeen ELSE device.lastSeen

\* ------------------------------------------------------------- snapshots
IdsOf(s) == {s[i].id : i \in 1..Len(s)}

\* dict.get(key): the entry, or <<>> for None.
Get(s, id) ==
  IF id \in IdsOf(s)
  THEN LET i == CHOOSE j \in 1..Len(s) : s[j].id = id IN <<s[i]>>
  ELSE <<>>

\* Mutant of Put: an existing key keeps its entry.
Put_FirstWins(s, e) ==
  IF e.id \in IdsOf(s) THEN s ELSE Append(s, e)

\* dict[key] = entry: an existing key keeps its position.
Put(s, e) ==
  IF e.id \in IdsOf(s)
  THEN [j \in 1..Len(s) |-> IF s[j].id = e.id THEN e ELSE s[j]]
  ELSE Append(s, e)

Entry(device, now) ==
  [id |-> device.id,
   name |-> DeviceName(device),
   online |-> is_device_online(device, now),
   lastSeen |-> StoredLastSeen(device)]

\* device['id'] raises KeyError
RaisesKeyError(devices) == \E i \in 1..Len(devices) : devices[i].id = MissingId

RECURSIVE BuildFrom(_, _, _)
BuildFrom(acc, devices, now) ==
  IF devices = <<>> THEN acc
  ELSE BuildFrom(Put(acc, Entry(Head(devices), now)), Tail(devices), now)

\* The loop that fills current_devices.
BuildSnapshot(devices, now) == BuildFrom(<<>>, devices, now)

\* ------------------------------------------------------------ state file
AbsentFile == [kind |-> "absent", content |-> <<>>]
\* A file json.load cannot read: empty, truncated or not JSON.
CorruptFile == [kind |-> "corrupt", content |-> <<>>]
JsonFile(state) == [kind |-> "json", content |-> state]

load_previous_state(file) ==
  IF file.kind = "json" THEN file.content ELSE <<>>

\* How a call of save_current_state ends: written; mkdir raises (outside the
\* try, the exception leaves the function); open raises (caught, file left
\* alone); the write raises after open truncated the file (caught).
SaveOutcomes == {"ok", "mkdir_raise", "open_fail", "dump_fail"}

\* Mutant of save_current_state: an empty state is not written.
save_current_state_SkipEmpty(file, state, outcome) ==
  CASE outcome = "ok" /\ state # <<>> -> JsonFile(state)
    [] outcome = "dump_fail" -> CorruptFile
    [] OTHER -> file

\* Mutant of save_current_state: a file that holds a state is not rewritten.
save_current_state_KeepOld(file, state, outcome) ==
  CASE outcome = "ok" -> IF file.kind = "json" THEN file ELSE JsonFile(state)
    [] outcome = "dump_fail" -> CorruptFile
    [] OTHER -> file

save_current_state(file, state, outcome) ==
  CASE outcome = "ok" -> JsonFile(state)
    [] outcome = "dump_fail" -> CorruptFile
    [] OTHER -> file

SaveRaises(outcome) == outcome = "mkdir_raise"

\* ------------------------------------------------------------------ diff
Event(d, status, type) ==
  [id |-> d.id, device |-> d.name, status |-> status, type |-> type]

\* Mutant of StatusOf: the two words swapped.
StatusOf_Swapped(d) == IF d.online THEN "offline" ELSE "online"

StatusOf(d) == IF d.online THEN "online" ELSE "offline"

\* Mutant of NewOrChanged: compares the whole entry, not the online flag.
NewOrChanged_WholeEntry(d, previous_state) ==
  LET prev == Get(previous_state, d.id) IN
  IF prev = <<>> THEN <<Event(d, StatusOf(d), "new")>>
  ELSE IF prev[1] # d THEN <<Event(d, StatusOf(d), "changed")>>
  ELSE <<>>

\* Mutant of NewOrChanged: an id without previous entry gives no event.
NewOrChanged_SkipMissing(d, previous_state) ==
  LET prev == Get(previous_state, d.id) IN
  IF prev # <<>> /\ prev[1].online # d.online
  THEN <<Event(d, StatusOf(d), "changed")>>
  ELSE <<>>

\* The body of the first loop for one item of current_devices.
NewOrChanged(d, previous_state) ==
  LET prev == Get(previous_state, d.id) IN
  IF prev = <<>> THEN <<Event(d, StatusOf(d), "new")>>
  ELSE IF prev[1].online # d.online THEN <<Event(d, StatusOf(d), "changed")>>
  ELSE <<>>

RECURSIVE FirstLoop(_, _)
FirstLoop(current, previous_state) ==
  IF current = <<>> THEN <<>>
  ELSE NewOrChanged(Head(current), previous_state)
         \o FirstLoop(Tail(current), previous_state)

\* Mutant of SecondLoop: no test of membership in current_devices.
RECURSIVE SecondLoop_NoTest(_, _)
SecondLoop_NoTest(previous, current_devices) ==
  IF previous = <<>> THEN <<>>
  ELSE <<Event(Head(previous), "removed", "removed")>>
         \o SecondLoop_NoTest(Tail(previous), current_devices)

\* Mutant of SecondLoop: a removed device gives no event.
SecondLoop_Silent(previous, current_devices) == <<>>

RECURSIVE SecondLoop(_, _)
SecondLoop(previous, current_devices) ==
  IF previous = <<>> THEN <<>>
  ELSE (IF Head(previous).id \notin IdsOf(current_devices)
        THEN <<Event(Head(previous), "removed", "removed")>>
        ELSE <<>>)
         \o SecondLoop(Tail(previous), current_devices)

\* Mutant of Changes: the loop over previous_state runs first.
Changes_RemovedFirst(current_devices, previous_state) ==
  SecondLoop(previous_state, current_devices)
    \o FirstLoop(current_devices, previous_state)

Changes(current_devices, previous_state) ==
  FirstLoop(current_devices, previous_state)
    \o SecondLoop(previous_state, current_devices)

\* ---------------------------------------------------------- notifications
\* str.title() of a status
Titled(status) ==
  CASE status = "online" -> "Online"
    [] status = "offline" -> "Offline"
    [] OTHER -> "Removed"

ChangeTitle(change) ==
  IF change.type = "new" THEN "New Tailscale Device"
  ELSE IF change.type = "removed" THEN "Tailscale Device Removed"
  ELSE "Device " \o Titled(change.status)

ChangeBody(change) ==
  IF change.type = "new" THEN <<change.device, "is", change.status>>
  ELSE IF change.type = "removed"
       THEN <<change.device, "was removed from the network">>
  ELSE <<change.device, "is now", change.status>>

\* One call of send_notification, as the record of what it was called with
\* and how it ended: without a configured URL it returns before notify
\* (no_urls); an exception of notify is caught (failed).  The body is the
\* sequence of the parts the f-string joins.
send_notification(title, body, urls, fails) ==
  [title |-> title, body |-> body,
   result |-> IF ~urls THEN "no_urls" ELSE IF fails THEN "failed" ELSE "sent"]

\* Mutant of Dispatch: the loop ends at the first call that fails.
Dispatch_StopAtFailure(changes, urls, failing) ==
  LET n == IF \E i \in 1..Len(changes) : i \in failing /\ urls
           THEN CHOOSE i \in 1..Len(changes) :
                  /\ i \in failing
                  /\ \A j \in 1..(i - 1) : j \notin failing
           ELSE Len(changes)
  IN [i \in 1..n |->
        send_notification(ChangeTitle(changes[i]), ChangeBody(changes[i]),
                          urls, i \in failing)]

\* The loop over changes; failing is the set of positions whose notify fails.
Dispatch(changes, urls, failing) ==
  [i \in 1..Len(changes) |->
     send_notification(ChangeTitle(changes[i]), ChangeBody(changes[i]),
                       urls, i \in failing)]

\* The sets of failing positions among n calls, none beyond position last.
FailSets(n, last) == SUBSET (1..(IF n < last THEN n ELSE last))

\* Python's order of the names: upper case before lower case.
NameRank(n) ==
  CASE n = "Unknown" -> 0
    [] n = "alpha" -> 1
    [] OTHER -> 2

RECURSIVE Insert(_, _)
Insert(sorted, n) ==
  IF sorted = <<>> THEN <<n>>
  ELSE IF NameRank(n) < NameRank(Head(sorted)) THEN <<n>> \o sorted
  ELSE <<Head(sorted)>> \o Insert(Tail(sorted), n)

RECURSIVE Sorted(_)
Sorted(names) ==
  IF names = <<>> THEN <<>> ELSE Insert(Sorted(Tail(names)), Head(names))

RECURSIVE NamesWhere(_, _, _)
NamesWhere(devices, now, online) ==
  IF devices = <<>> THEN <<>>
  ELSE (IF is_device_online(Head(devices), now) = online
        THEN <<DeviceName(Head(devices))>> ELSE <<>>)
         \o NamesWhere(Tail(devices), now, online)

Listed(names) == IF names = <<>> THEN <<"(none)">> ELSE Sorted(names)

ReportTitle == "Tailscale Initial Status Report"

\* The lines of the report body that name devices; the counts are the
\* lengths of the two lists.
ReportBody(devices, now) ==
  <<"Online:">> \o Listed(NamesWhere(devices, now, TRUE))
    \o <<"Offline:">> \o Listed(NamesWhere(devices, now, FALSE))

ErrorTitle == "Tailscale Monitor Error"

\* str(e)
ExcText(e) == IF e = "KeyError" THEN "'id'" ELSE "Permission denied"

\* ------------------------------------------------------------------ state
VARIABLES
  pc,               \* where main is: start, exited, initial, crashed,
                    \* sleep, loop_top, raised
  config,           \* key: TAILSCALE_API_KEY is set; tailnet:
                    \* TAILSCALE_TAILNET is set;
                    \* urls: APPRISE_URLS names at least one service
  stateFile,        \* the content of STATE_FILE
  handler,          \* the handler that ran last: none, initial, check
  data,             \* what its fetch returned
  current_devices,  \* the snapshot it built
  previous_state,   \* the state it loaded
  changes,          \* its change list
  sent,             \* the calls of send_notification since it began
  saved,            \* how its save ended; none when it did not save
  exc,              \* the exception that left it; none when it returned
  probe,            \* the arguments of a single call of is_device_online
  verdict           \* what that call returned

vars == <<pc, config, stateFile, handler, data, current_devices,
          previous_state, changes, sent, saved, exc, probe, verdict>>

\* No single call: the program runs.
NoProbe == [lastSeen |-> NoLastSeen, now |-> 0, threshold |-> 0]

\* The state files an earlier run can have left.
Snapshots ==
  {BuildSnapshot(p, t) :
     p \in {q \in Payloads : ~RaisesKeyError(q)}, t \in Instants}

FileContents == {AbsentFile, CorruptFile} \cup {JsonFile(s) : s \in Snapshots}

Init ==
  /\ pc = "start"
  /\ config \in [key : BOOLEAN, tailnet : BOOLEAN, urls : BOOLEAN]
  /\ stateFile \in FileContents
  /\ handler = "none"
  /\ data = NoneData
  /\ current_devices = <<>>
  /\ previous_state = <<>>
  /\ changes = <<>>
  /\ sent = <<>>
  /\ saved = "none"
  /\ exc = "none"
  /\ probe = NoProbe
  /\ verdict = FALSE

\* Mutant of MainStart: only the API key is tested.
MainStart_KeyOnly ==
  /\ pc = "start"
  /\ pc' = IF config.key THEN "initial" ELSE "exited"
  /\ UNCHANGED <<config, stateFile, handler, data, current_devices,
                 previous_state, changes, sent, saved, exc, probe, verdict>>

\* main, up to the call of send_initial_status.
MainStart ==
  /\ pc = "start"
  /\ pc' = IF config.key /\ config.tailnet THEN "initial" ELSE "exited"
  /\ UNCHANGED <<config, stateFile, handler, data, current_devices,
                 previous_state, changes, sent, saved, exc, probe, verdict>>

\* send_initial_status, called by main outside any try: an exception that
\* leaves it ends the process.  now1 is the clock of the report loop, now2
\* that of the loop that builds the snapshot.
SendInitialStatusOn(results, outcomes, last) ==
  /\ pc = "initial"
  /\ \E d \in results, now1 \in Instants, now2 \in Instants,
        failing \in FailSets(1, last), outcome \in outcomes :
       /\ now1 <= now2
       /\ handler' = "initial"
       /\ data' = d
       /\ previous_state' = <<>>
       /\ changes' = <<>>
       /\ IF Falsy(d)
          THEN /\ pc' = "sleep"
               /\ sent' = <<>>
               /\ current_devices' = <<>>
               /\ saved' = "none"
               /\ exc' = "none"
               /\ UNCHANGED stateFile
          ELSE /\ sent' = <<send_notification(ReportTitle,
                                              ReportBody(d.devices, now1),
                                              config.urls, 1 \in failing)>>
               /\ IF RaisesKeyError(d.devices)
                  THEN /\ pc' = "crashed"
                       /\ exc' = "KeyError"
                       /\ current_devices' = <<>>
                       /\ saved' = "none"
                       /\ UNCHANGED stateFile
                  ELSE /\ current_devices' = BuildSnapshot(d.devices, now2)
                       /\ saved' = outcome
                       /\ stateFile' = save_current_state(stateFile,
                                         current_devices', outcome)
                       /\ exc' = IF SaveRaises(outcome) THEN "OSError"
                                 ELSE "none"
                       /\ pc' = IF SaveRaises(outcome) THEN "crashed"
                                ELSE "sleep"
       /\ UNCHANGED <<config, probe, verdict>>

SendInitialStatus ==
  SendInitialStatusOn(FetchResults, SaveOutcomes, MaxFailPos)

\* check_devices, called by the loop of main inside try.
CheckDevicesOn(results, outcomes, last) ==
  /\ pc = "loop_top"
  /\ \E d \in results, now \in Instants, outcome \in outcomes :
       /\ handler' = "check"
       /\ data' = d
       /\ IF Falsy(d)
          THEN /\ pc' = "sleep"
               /\ current_devices' = <<>>
               /\ previous_state' = <<>>
               /\ changes' = <<>>
               /\ sent' = <<>>
               /\ saved' = "none"
               /\ exc' = "none"
               /\ UNCHANGED stateFile
          ELSE IF RaisesKeyError(d.devices)
          THEN /\ pc' = "raised"
               /\ exc' = "KeyError"
               /\ current_devices' = <<>>
               /\ previous_state' = <<>>
               /\ changes' = <<>>
               /\ sent' = <<>>
               /\ saved' = "none"
               /\ UNCHANGED stateFile
          ELSE /\ current_devices' = BuildSnapshot(d.devices, now)
               /\ previous_state' = load_previous_state(stateFile)
               /\ changes' = Changes(current_devices', previous_state')
               /\ \E failing \in FailSets(Len(changes'), last) :
                    sent' = Dispatch(changes', config.urls, failing)
               /\ saved' = outcome
               /\ stateFile' = save_current_state(stateFile, current_devices',
                                                  outcome)
               /\ exc' = IF SaveRaises(outcome) THEN "OSError" ELSE "none"
               /\ pc' = IF SaveRaises(outcome) THEN "raised" ELSE "sleep"
       /\ UNCHANGED <<config, probe, verdict>>

CheckDevices == CheckDevicesOn(FetchResults, SaveOutcomes, MaxFailPos)

\* Mutant of LoopExcept: the exception is not caught and ends the process.
LoopExcept_Uncaught ==
  /\ pc = "raised"
  /\ pc' = "crashed"
  /\ UNCHANGED <<config, stateFile, handler, data, current_devices,
                 previous_state, changes, sent, saved, exc, probe, verdict>>

\* except Exception in the loop of main: print, send the error notification.
LoopExcept ==
  /\ pc = "raised"
  /\ \E failing \in FailSets(1, MaxFailPos) :
       sent' = Append(sent, send_notification(ErrorTitle, <<ExcText(exc)>>,
                                              config.urls, 1 \in failing))
  /\ pc' = "sleep"
  /\ UNCHANGED <<config, stateFile, handler, data, current_devices,
                 previous_state, changes, saved, exc, probe, verdict>>

\* time.sleep(CHECK_INTERVAL), before the loop and at the end of its body.
\* The handler has returned: its locals are gone.
LoopSleep ==
  /\ pc = "sleep"
  /\ pc' = "loop_top"
  /\ handler' = "none"
  /\ data' = NoneData
  /\ current_devices' = <<>>
  /\ previous_state' = <<>>
  /\ changes' = <<>>
  /\ sent' = <<>>
  /\ saved' = "none"
  /\ exc' = "none"
  /\ UNCHANGED <<config, stateFile, probe, verdict>>

Next ==
  \/ MainStart
  \/ SendInitialStatus
  \/ CheckDevices
  \/ LoopExcept
  \/ LoopSleep

Spec == Init /\ [][Next]_vars

\* The same program with a state file that is always written and a notifier
\* that does not fail inside a handler, for the properties of the diff,
\* which is computed before either is used.
SendInitialStatusDiff == SendInitialStatusOn(FetchResults, {"ok"}, 0)

CheckDevicesDiff == CheckDevicesOn(FetchResults, {"ok"}, 0)

NextDiff ==
  \/ MainStart
  \/ SendInitialStatusDiff
  \/ CheckDevicesDiff
  \/ LoopExcept
  \/ LoopSleep

DiffSpec == Init /\ [][NextDiff]_vars

\* The same program over the fetch results of at most one device, for the
\* properties of progress.  main is one sequential thread that runs as long
\* as it has a next statement.
LiveFetchResults == {r \in FetchResults : Len(r.devices) <= 1}

SendInitialStatusLive ==
  SendInitialStatusOn(LiveFetchResults, SaveOutcomes, MaxFailPos)

CheckDevicesLive ==
  CheckDevicesOn(LiveFetchResults, SaveOutcomes, MaxFailPos)

NextLive ==
  \/ MainStart
  \/ SendInitialStatusLive
  \/ CheckDevicesLive
  \/ LoopExcept
  \/ LoopSleep

LiveSpec == Init /\ [][NextLive]_vars /\ WF_vars(NextLive)

\* A single call of is_device_online and the entry the build loop stores
\* for its device, over every kind of lastSeen, instant and threshold.
ProbeLastSeen ==
  {NoLastSeen, EmptyLastSeen, GarbageLastSeen}
    \cup {Iso(t) : t \in 0..MaxProbeTime}
    \cup {Naive(t) : t \in 0..MaxProbeTime}

Probes ==
  [lastSeen : ProbeLastSeen, now : 0..MaxProbeTime, threshold : 0..MaxThreshold]

ProbeDevice ==
  [id |-> "A", name |-> "alpha", hostname |-> "", lastSeen |-> probe.lastSeen]

InitProbe ==
  /\ pc = "probe"
  /\ config = [key |-> TRUE, tailnet |-> TRUE, urls |-> TRUE]
  /\ stateFile = AbsentFile
  /\ handler = "none"
  /\ data = NoneData
  /\ current_devices = <<>>
  /\ previous_state = <<>>
  /\ changes = <<>>
  /\ sent = <<>>
  /\ saved = "none"
  /\ exc = "none"
  /\ probe \in Probes
  /\ verdict = FALSE

CallIsDeviceOnline ==
  /\ pc = "probe"
  /\ pc' = "probed"
  /\ verdict' = is_online_at(probe.lastSeen, probe.now, probe.threshold)
  /\ data' = DevicesData(<<ProbeDevice>>)
  /\ current_devices' = BuildSnapshot(data'.devices, probe.now)
  /\ UNCHANGED <<config, stateFile, handler, previous_state, changes, sent,
                 saved, exc, probe>>

NextProbe == CallIsDeviceOnline

ProbeSpec == InitProbe /\ [][NextProbe]_vars

\* ---------------------------------------------------------------- claims
\* The last handler was check_devices and it came to its diff.
Diffed == handler = "check" /\ ~Falsy(data) /\ exc # "KeyError"

\* The loop of main has caught the handler's exception and has sent its
\* error notification, which is the last element of sent.
AfterExcept == handler = "check" /\ exc # "none" /\ pc = "sleep"

\* The calls of send_notification made inside the handler.
HandlerCalls == IF AfterExcept THEN SubSeq(sent, 1, Len(sent) - 1) ELSE sent

OnlineIn(s, id) == Get(s, id)[1].online

SameFlags(c, p) ==
  /\ IdsOf(c) = IdsOf(p)
  /\ \A id \in IdsOf(c) : OnlineIn(c, id) = OnlineIn(p, id)

EventsFor(id) == SelectSeq(changes, LAMBDA e : e.id = id)

\* C1: when the snapshot built by check_devices has the ids of the loaded
\* previous state and the same online flag for each id, the change list is
\* empty and check_devices calls send_notification not once.
C1_Idempotent ==
  (Diffed /\ SameFlags(current_devices, previous_state))
    => (changes = <<>> /\ HandlerCalls = <<>>)

\* A cycle over an unchanged, non-empty inventory whose names or lastSeen
\* values differ from the stored ones.
C1_Witness ==
  /\ Diffed
  /\ SameFlags(current_devices, previous_state)
  /\ current_devices # <<>>
  /\ current_devices # previous_state
  /\ saved = "ok"

\* C2: an id of current only has an event of type new with the status of
\* its current flag; an id of both whose flags differ has an event of type
\* changed with the status of its current flag; an id of previous only has
\* an event of type removed with status removed; an id of both with equal
\* flags has no event, whatever its name and lastSeen; and every event is
\* one of these.
C2_Classification ==
  Diffed =>
    /\ \A id \in IdsOf(current_devices) \ IdsOf(previous_state) :
         \E i \in 1..Len(changes) :
           changes[i] = [id |-> id,
                         device |-> Get(current_devices, id)[1].name,
                         status |-> IF OnlineIn(current_devices, id)
                                    THEN "online" ELSE "offline",
                         type |-> "new"]
    /\ \A id \in IdsOf(current_devices) \cap IdsOf(previous_state) :
         IF OnlineIn(current_devices, id) # OnlineIn(previous_state, id)
         THEN \E i \in 1..Len(changes) :
                changes[i] = [id |-> id,
                              device |-> Get(current_devices, id)[1].name,
                              status |-> IF OnlineIn(current_devices, id)
                                         THEN "online" ELSE "offline",
                              type |-> "changed"]
         ELSE EventsFor(id) = <<>>
    /\ \A id \in IdsOf(previous_state) \ IdsOf(current_devices) :
         \E i \in 1..Len(changes) :
           changes[i] = [id |-> id,
                         device |-> Get(previous_state, id)[1].name,
                         status |-> "removed",
                         type |-> "removed"]
    /\ \A i \in 1..Len(changes) :
         LET e == changes[i] IN
         CASE e.type = "new" ->
                e.id \in IdsOf(current_devices) \ IdsOf(previous_state)
           [] e.type = "changed" ->
                /\ e.id \in IdsOf(current_devices) \cap IdsOf(previous_state)
                /\ OnlineIn(current_devices, e.id)
                     # OnlineIn(previous_state, e.id)
           [] e.type = "removed" ->
                e.id \in IdsOf(previous_state) \ IdsOf(current_devices)
           [] OTHER -> FALSE

\* One cycle with a new device, a device whose flag changed, a removed
\* device: all three types at once.
C2_Witness ==
  /\ Diffed
  /\ {changes[i].type : i \in 1..Len(changes)} = {"new", "changed", "removed"}

\* A cycle where a device kept its flag and changed its name.
C2_WitnessRenamed ==
  /\ Diffed
  /\ \E id \in IdsOf(current_devices) \cap IdsOf(previous_state) :
       /\ OnlineIn(current_devices, id) = OnlineIn(previous_state, id)
       /\ Get(current_devices, id)[1].name # Get(previous_state, id)[1].name

\* C3: every id of current or previous has at most one event, and exactly
\* one when its flag differs or it is in only one of the two.
C3_Completeness ==
  Diffed =>
    \A id \in IdsOf(current_devices) \cup IdsOf(previous_state) :
      /\ Len(EventsFor(id)) <= 1
      /\ (\/ id \notin IdsOf(current_devices)
          \/ id \notin IdsOf(previous_state)
          \/ OnlineIn(current_devices, id) # OnlineIn(previous_state, id))
           => Len(EventsFor(id)) = 1

\* A cycle with an event for one id and none for another id of both.
C3_Witness ==
  /\ Diffed
  /\ \E a \in IdsOf(current_devices), b \in IdsOf(previous_state) :
       /\ a \in IdsOf(previous_state)
       /\ Len(EventsFor(a)) = 0
       /\ Len(EventsFor(b)) = 1
       /\ b \notin IdsOf(current_devices)

\* Position of id in snapshot s.
PosIn(s, id) == CHOOSE j \in 1..Len(s) : s[j].id = id

\* Where the event stands in the order of the two loops.
LoopRank(e) ==
  IF e.type = "removed"
  THEN Len(current_devices) + PosIn(previous_state, e.id)
  ELSE PosIn(current_devices, e.id)

\* C4: the new and changed events come first, in the order of the current
\* snapshot, and the removed events after them, in the order of the
\* previous snapshot.
C4_Ordering ==
  Diffed =>
    \A i \in 1..Len(changes), j \in 1..Len(changes) :
      i < j => LoopRank(changes[i]) < LoopRank(changes[j])

\* previous = {A online, B offline}, current = {B online, C online} gives
\* [B changed, C new, A removed].
C4_Witness ==
  /\ Diffed
  /\ [i \in 1..Len(previous_state) |->
        <<previous_state[i].id, previous_state[i].online>>]
       = << <<"A", TRUE>>, <<"B", FALSE>> >>
  /\ [i \in 1..Len(current_devices) |->
        <<current_devices[i].id, current_devices[i].online>>]
       = << <<"B", TRUE>>, <<"C", TRUE>> >>
  /\ [i \in 1..Len(changes) |->
        <<changes[i].id, changes[i].status, changes[i].type>>]
       = << <<"B", "online", "changed">>, <<"C", "online", "new">>,
            <<"A", "removed", "removed">> >>

\* C5: when no state file exists or it cannot be loaded, or it holds the
\* empty mapping, a check cycle that comes to its diff emits one event of
\* type new for each device of the current snapshot and nothing else.
C5_FirstRun ==
  [][(pc = "loop_top" /\ Diffed'
      /\ (stateFile.kind # "json" \/ stateFile.content = <<>>))
       => /\ previous_state' = <<>>
          /\ Len(changes') = Len(current_devices')
          /\ \A i \in 1..Len(changes') :
               /\ changes'[i].id = current_devices'[i].id
               /\ changes'[i].type = "new"]_vars

\* A first run over two devices of different names and flags.
C5_Witness ==
  /\ Diffed
  /\ previous_state = <<>>
  /\ Len(current_devices) = 2
  /\ Len(changes) = 2
  /\ current_devices[1].name # current_devices[2].name
  /\ current_devices[1].online # current_devices[2].online

\* C6: a handler (check_devices or send_initial_status) whose fetch returns
\* None computes no diff, calls send_notification not once, does not save
\* and raises nothing: the state file is what it was; no step but a
\* handler's changes the state file, and the next cycle that comes to its
\* diff diffs against the content of that file.
C6_FetchFailure ==
  /\ [][(pc \in {"initial", "loop_top"} /\ data'.kind = "none")
          => /\ stateFile' = stateFile
             /\ changes' = <<>>
             /\ sent' = <<>>
             /\ saved' = "none"
             /\ exc' = "none"
             /\ pc' = "sleep"]_vars
  /\ [][pc \notin {"initial", "loop_top"} => stateFile' = stateFile]_vars
  /\ [][(pc = "loop_top" /\ Diffed')
          => previous_state' = IF stateFile.kind = "json"
                               THEN stateFile.content ELSE <<>>]_vars

\* A check cycle whose fetch failed, over a state file with devices.
C6_Witness ==
  /\ handler = "check"
  /\ data.kind = "none"
  /\ pc = "sleep"
  /\ stateFile.kind = "json"
  /\ stateFile.content # <<>>

\* C7: after a handler whose fetch gave a device list and whose save was
\* written, the state file holds exactly the snapshot built from that
\* device list, whatever the events and the failed notifications.
C7_PersistedIsSnapshot ==
  (handler \in {"initial", "check"} /\ data.kind = "devices" /\ saved = "ok")
    => /\ stateFile.kind = "json"
       /\ stateFile.content = current_devices
       /\ \E now \in Instants :
            stateFile.content = BuildSnapshot(data.devices, now)

\* A check cycle with events, a failed notification and a written save
\* that leaves an empty snapshot.
C7_Witness ==
  /\ handler = "check"
  /\ saved = "ok"
  /\ changes # <<>>
  /\ sent[1].result = "failed"
  /\ previous_state # <<>>
  /\ current_devices = <<>>

\* The initial report has written its snapshot.
C7_WitnessInitial ==
  /\ handler = "initial"
  /\ saved = "ok"
  /\ Len(current_devices) = 2

\* C8: check_devices calls send_notification once per change event, in the
\* order of the change list, with the title and body of that event, and
\* goes on to the save, whichever calls failed.
C8_Dispatch ==
  Diffed =>
    /\ Len(HandlerCalls) = Len(changes)
    /\ \A i \in 1..Len(changes) :
         /\ HandlerCalls[i].title = ChangeTitle(changes[i])
         /\ HandlerCalls[i].body = ChangeBody(changes[i])
    /\ saved # "none"

\* The first notify call failed, the second was sent, the save was written.
C8_Witness ==
  /\ Diffed
  /\ Len(changes) >= 2
  /\ sent[1].result = "failed"
  /\ sent[2].result = "sent"
  /\ sent[1] # [sent[2] EXCEPT !.result = "failed"]
  /\ saved = "ok"

\* C9: the loop of main catches every exception that leaves check_devices,
\* calls send_notification once with the error, sleeps and calls
\* check_devices again; no check cycle ends the loop.
C9_LoopSurvives ==
  /\ [][pc = "raised"
          => /\ pc' = "sleep"
             /\ sent' = Append(sent, [title |-> ErrorTitle,
                                      body |-> <<ExcText(exc)>>,
                                      result |-> sent'[Len(sent')].result])]_vars
  /\ [][pc = "loop_top" => pc' \in {"sleep", "raised"}]_vars
  /\ (pc = "raised") ~> (pc = "loop_top")
  /\ (pc = "loop_top") ~> (handler = "check")

\* The loop has caught a KeyError and has sent the error notification.
C9_Witness ==
  /\ AfterExcept
  /\ exc = "KeyError"
  /\ Len(sent) = 1
  /\ sent[1].title = ErrorTitle

\* C10: once the configuration check has passed, no failure ends the
\* process.
C10_NeverFatal == pc # "crashed"

\* C11: a record without id is skipped and nothing else: the handler raises
\* nothing, the snapshot has an entry for the id of every other record of
\* the fetch, and the handler goes on to its save.
C11_MalformedSkipped ==
  (/\ handler \in {"initial", "check"}
   /\ data.kind = "devices"
   /\ \E i \in 1..Len(data.devices) : data.devices[i].id = MissingId)
    => /\ exc = "none"
       /\ IdsOf(current_devices)
            = {data.devices[i].id : i \in 1..Len(data.devices)} \ {MissingId}
       /\ saved # "none"

\* C12: for a lastSeen that gives an instant, is_device_online answers True
\* exactly when now - lastSeen < threshold: at exactly threshold it answers
\* False, one unit below it answers True, and for a lastSeen in the future
\* it answers True.
C12_Threshold ==
  (pc = "probed" /\ probe.lastSeen.kind = "iso")
    => LET elapsed == probe.now - probe.lastSeen.t IN
       /\ verdict <=> elapsed < probe.threshold
       /\ elapsed = probe.threshold => ~verdict
       /\ elapsed = probe.threshold - 1 => verdict
       /\ (elapsed < 0 /\ probe.threshold >= 0) => verdict

\* A device seen exactly threshold units ago is offline.
C12_Witness ==
  /\ pc = "probed"
  /\ probe.lastSeen.kind = "iso"
  /\ probe.threshold > 0
  /\ probe.now - probe.lastSeen.t = probe.threshold
  /\ ~verdict

\* A device seen one unit less than threshold ago is online.
C12_WitnessBelow ==
  /\ pc = "probed"
  /\ probe.lastSeen.kind = "iso"
  /\ probe.now - probe.lastSeen.t = probe.threshold - 1
  /\ verdict

\* A device seen in the future is online.
C12_WitnessFuture ==
  /\ pc = "probed"
  /\ probe.lastSeen.kind = "iso"
  /\ probe.now < probe.lastSeen.t
  /\ verdict

\* C13: for a lastSeen that is absent, empty or gives no instant,
\* is_device_online answers False and raises nothing, and the build loop
\* stores the device with online = False.
C13_ClosedClassification ==
  (pc = "probed" /\ probe.lastSeen.kind # "iso")
    => /\ ~verdict
       /\ exc = "none"
       /\ Len(current_devices) = 1
       /\ current_devices[1].id = "A"
       /\ ~current_devices[1].online

\* A lastSeen that cannot be parsed was classified and stored.
C13_Witness ==
  /\ pc = "probed"
  /\ probe.lastSeen.kind = "garbage"
  /\ ~verdict
  /\ current_devices # <<>>
  /\ current_devices[1].lastSeen = GarbageLastSeen

\* C14: when the save of a check cycle fails, check_devices raises nothing,
\* a load of the state file gives what the cycle loaded, and a next cycle
\* that builds the same snapshot computes the same change events.
C14_SaveFailure ==
  (Diffed /\ saved \notin {"none", "ok"})
    => /\ exc = "none"
       /\ load_previous_state(stateFile) = previous_state
       /\ Changes(current_devices, load_previous_state(stateFile)) = changes

\* The handler has built its snapshot from the fetched records.
Built ==
  /\ handler \in {"initial", "check"}
  /\ ~Falsy(data)
  /\ ~RaisesKeyError(data.devices)

\* The position of the last record of the fetch that has this id.
LastOf(id) ==
  CHOOSE i \in 1..Len(data.devices) :
    /\ data.devices[i].id = id
    /\ \A j \in (i + 1)..Len(data.devices) : data.devices[j].id # id

\* C15: the snapshot has exactly one entry for each id of the fetch, and the
\* entry holds the name, online flag and lastSeen of the last record of the
\* fetch that has this id.
C15_LastWriteWins ==
  Built
    => /\ IdsOf(current_devices)
            = {data.devices[i].id : i \in 1..Len(data.devices)}
       /\ Len(current_devices) = Cardinality(IdsOf(current_devices))
       /\ \E now \in Instants :
            \A k \in 1..Len(current_devices) :
              current_devices[k]
                = Entry(data.devices[LastOf(current_devices[k].id)], now)

\* Two records share an id and differ in name and lastSeen: one entry, that
\* of the second.
C15_Witness ==
  /\ handler = "check"
  /\ data.kind = "devices"
  /\ Len(data.devices) = 2
  /\ data.devices[1].id = data.devices[2].id
  /\ DeviceName(data.devices[1]) # DeviceName(data.devices[2])
  /\ data.devices[1].lastSeen # data.devices[2].lastSeen
  /\ Len(current_devices) = 1
  /\ current_devices[1].name = DeviceName(data.devices[2])
  /\ current_devices[1].lastSeen = StoredLastSeen(data.devices[2])

\* C16: after every step, a load of the state file gives what it gave before
\* the step or the whole snapshot the step saved, never an empty or partial
\* one.
C16_AtomicOverwrite ==
  [][\/ load_previous_state(stateFile') = load_previous_state(stateFile)
     \/ /\ saved' # "none"
        /\ load_previous_state(stateFile') = current_devices']_vars

\* The API key or the tailnet name is unset.
Unconfigured == ~config.key \/ ~config.tailnet

\* C17: when the API key or the tailnet name is unset, main returns: no
\* handler runs, so nothing is fetched, nothing is sent, the state file is
\* neither loaded nor saved nor changed, and the loop is never entered.
C17_NoStartup ==
  /\ [](Unconfigured
          => /\ pc \in {"start", "exited"}
             /\ handler = "none"
             /\ data = NoneData
             /\ sent = <<>>
             /\ previous_state = <<>>
             /\ saved = "none")
  /\ [][Unconfigured => stateFile' = stateFile]_vars

\* main has returned with the key set and the tailnet name unset, over a
\* state file of an earlier run.
C17_Witness ==
  /\ pc = "exited"
  /\ config.key
  /\ ~config.tailnet
  /\ stateFile.kind = "json"
  /\ stateFile.content # <<>>
  /\ sent = <<>>

\* The 'changed' events of the step's change list for this id.
ChangedEventsFor(id) ==
  {k \in 1..Len(changes') : changes'[k].id = id /\ changes'[k].type = "changed"}

\* C18: in a run where every fetch and every save succeeds, each step of a
\* handler leaves in the state file the online flag it observed for every
\* device, and a check cycle emits for a device that the state file holds
\* exactly one 'changed' event, with the new status, when the observed
\* flag differs from the stored one, and none when it is the stored one.
\* So the cycle that first observes a flag emits one event, and the cycles
\* after it, which observe the flag it stored, emit none.
C18_NotifiedOnce ==
  [][(/\ handler' \in {"initial", "check"}
      /\ handler = "none"
      /\ data'.kind = "devices"
      /\ saved' = "ok")
       => /\ \A id \in IdsOf(current_devices') :
               /\ id \in IdsOf(load_previous_state(stateFile'))
               /\ OnlineIn(load_previous_state(stateFile'), id)
                    = OnlineIn(current_devices', id)
          /\ handler' = "check" =>
               \A id \in IdsOf(load_previous_state(stateFile))
                           \cap IdsOf(current_devices') :
                 IF OnlineIn(load_previous_state(stateFile), id)
                      # OnlineIn(current_devices', id)
                 THEN /\ Cardinality(ChangedEventsFor(id)) = 1
                      /\ \A k \in ChangedEventsFor(id) :
                           /\ changes'[k].status
                                = (IF OnlineIn(current_devices', id)
                                   THEN "online" ELSE "offline")
                           /\ sent'[k].title = ChangeTitle(changes'[k])
                 ELSE ChangedEventsFor(id) = {}]_vars

\* A check cycle has observed a device of the state file with the other
\* flag, has emitted its one event and has stored the new flag.
C18_Witness ==
  /\ Diffed
  /\ saved = "ok"
  /\ \E id \in IdsOf(previous_state) \cap IdsOf(current_devices) :
       /\ OnlineIn(previous_state, id) # OnlineIn(current_devices, id)
       /\ OnlineIn(load_previous_state(stateFile), id)
            = OnlineIn(current_devices, id)
       /\ Len(SelectSeq(changes, LAMBDA e : e.id = id /\ e.type = "changed"))
            = 1

\* C19: after send_initial_status has saved, over a fetch of records with
\* distinct ids, the report is the report of one classification of the
\* records, and that classification gives every record the online flag
\* stored for its id.
C19_ReportAgrees ==
  (/\ handler = "initial"
   /\ data.kind = "devices"
   /\ saved = "ok"
   /\ Cardinality(IdsOf(data.devices)) = Len(data.devices))
    => \E t \in Instants :
         /\ sent[1].body = ReportBody(data.devices, t)
         /\ \A i \in 1..Len(data.devices) :
              is_device_online(data.devices[i], t)
                = OnlineIn(current_devices, data.devices[i].id)

\* The ids whose presence or online flag differs between two snapshots.
Differing(p, c) ==
  {id \in IdsOf(p) \cup IdsOf(c) :
     \/ id \notin IdsOf(p)
     \/ id \notin IdsOf(c)
     \/ OnlineIn(p, id) # OnlineIn(c, id)}

\* A step of one of these handlers that opens the state file for writing
\* has, for every id that differs between the load of the file before the
\* step and the snapshot written, a change event and the call of
\* send_notification for it.
NoSilentChange(handlers) ==
  (/\ handler = "none"
   /\ handler' \in handlers
   /\ saved' \in {"ok", "dump_fail"})
    => \A id \in Differing(load_previous_state(stateFile), current_devices') :
         \E k \in 1..Len(changes') :
           /\ changes'[k].id = id
           /\ k <= Len(sent')
           /\ sent'[k].title = ChangeTitle(changes'[k])
           /\ sent'[k].body = ChangeBody(changes'[k])

\* C20 as stated: every overwrite of the state file, that of the initial
\* report included, comes with a dispatched change event for every id whose
\* presence or online flag differs between the state before and the
\* snapshot written.
C20_NoSilentChange == [][NoSilentChange({"initial", "check"})]_vars

\* C20, amended: every overwrite of the state file done by check_devices
\* comes with a dispatched change event for every id whose presence or
\* online flag differs between the state before and the snapshot written.
C20_NoSilentChangeInCheck == [][NoSilentChange({"check"})]_vars

\* A check cycle has overwritten a state file that differs from the snapshot
\* in two ids, one gone and one come, and has called send_notification for
\* both.
C20_Witness ==
  /\ handler = "check"
  /\ saved \in {"ok", "dump_fail"}
  /\ IdsOf(previous_state) \ IdsOf(current_devices) # {}
  /\ IdsOf(current_devices) \ IdsOf(previous_state) # {}
  /\ Cardinality(Differing(previous_state, current_devices)) = Len(changes)
  /\ Len(sent) = Len(changes)

====
